---- MODULE Spec2Model ----
(***************************************************************************)
(* Model of the agentic form filler (src/agentic_form_filler.py): the      *)
(* extraction agent, the quality assurance agent and the orchestrator's    *)
(* process_form loop.                                                      *)
(*                                                                         *)
(* Numbers.  Confidences are integers in hundredths (80 is 0.8).  A score  *)
(* is an integer in units of 1/SCALE, SCALE being a multiple of every      *)
(* divisor the code can divide by, so every quotient of the code is an     *)
(* exact integer here (Python floats are modelled as exact rationals).     *)
(*                                                                         *)
(* Text.  A text is a sequence of segments, each one line "Label: value"   *)
(* of the line pool, or a segment no regular expression matches.  The      *)
(* regular expressions of the code are modelled by what they capture from  *)
(* one such line; re.search / re.findall[0] take the first segment that    *)
(* has a match.                                                            *)
(*                                                                         *)
(* Aliasing.  Python dicts are objects: heap maps an address to the dict   *)
(* stored there, and a variable or a record field holding a dict holds     *)
(* its address.                                                            *)
(***************************************************************************)
EXTENDS Integers, Sequences, FiniteSets, TLC

VARIABLES
    pc,                \* state of process_form
    pdf_fields,        \* input: the fields the form has (what pdftk would dump)
    sources,           \* input: the list of sources
    output_path,       \* input: TRUE when an output path was given
    max_iterations,    \* input
    ai_provider,       \* input: "pattern", "openai" or "anthropic"
    form_fields,       \* local of process_form
    heap,              \* address -> dict
    extraction_result, \* local: the dict returned by _perform_extraction_iteration
    current_data,      \* local: ADDRESS of the current field map (0: unassigned)
    current_quality,   \* local
    iteration,         \* loop variable of "for iteration in range(2, max_iterations + 1)"
    qa_result,         \* local: result of the last quality_assurance_agent.execute
    results,           \* the dict process_form returns
    calls,             \* history: how often each collaborator was invoked
    history,           \* history: what was appended to the audit trail, as it
                       \* was at that time, what the provider was given, what
                       \* the backend answered, how the adapters answered
    fdf,               \* one call of PDFFormFiller._create_fdf: its argument
                       \* and what it returned
    wf                 \* a WorkflowOrchestrator of python_agentic_framework.py
                       \* and the call it is serving

vars == <<pc, pdf_fields, sources, output_path, max_iterations, ai_provider,
          form_fields, heap, extraction_result, current_data, current_quality,
          iteration, qa_result, results, calls, history, fdf, wf>>

\* The variables of process_form
form_vars == <<pc, pdf_fields, sources, output_path, max_iterations, ai_provider,
               form_fields, heap, extraction_result, current_data,
               current_quality, iteration, qa_result, results, calls, history>>

-----------------------------------------------------------------------------
(* Bounds of the model *)

MaxIterations == 3

MaxFields == 2

\* How often the pattern strategy is run on one corpus (PatternSpec)
MaxRuns == 2

\* The longest field value handed to _create_fdf (FdfSpec)
MaxValueLen == 2

\* The longest list of steps of a workflow (WorkflowSpec)
MaxSteps == 3

-----------------------------------------------------------------------------
(* Generic helpers: dicts are functions from keys to values *)

None == "None"

EmptyDict == [k \in {} |-> None]

Keys(d) == DOMAIN d

DictLen(d) == Cardinality(DOMAIN d)

\* dict.get(key) with the default None
Get(d, k) == IF k \in DOMAIN d THEN d[k] ELSE None

RECURSIVE SumOver(_, _)
SumOver(d, S) ==
    IF S = {} THEN 0
    ELSE LET k == CHOOSE k \in S : TRUE IN d[k] + SumOver(d, S \ {k})

\* sum(d.values())
SumValues(d) == SumOver(d, DOMAIN d)

Min(a, b) == IF a <= b THEN a ELSE b

RECURSIVE Factorial(_)
Factorial(n) == IF n <= 1 THEN 1 ELSE n * Factorial(n - 1)

\* One unit of score is 1/SCALE.  A dict of the run has at most MaxFields + 1
\* keys (the schema's names and one key outside the schema), so SCALE / n is
\* exact for every count n the code divides by.
SCALE == 1000 * Factorial(MaxFields + 2)

\* x/100 as a score, for the literals 0.9, 0.8
Score(hundredths) == (hundredths * SCALE) \div 100

-----------------------------------------------------------------------------
(* The strings of the model and the string functions the code applies *)

\* Form fields as FormFieldExtractor._parse_pdftk_output builds them (the keys
\* the pipeline reads)
FieldCase == [name |-> "case_number", alt_text |-> ""]

FieldName == [name |-> "Party_Name", alt_text |-> ""]

FieldAmount == [name |-> "total_amount", alt_text |-> ""]

FieldPool == <<FieldCase, FieldName, FieldAmount>>

\* A key a generative backend may return that is no field of the form
ExtraKey == "extra_key"

\* str.lower()
Lower(s) ==
    CASE s = "Party_Name" -> "party_name"
      [] s = "Party Name" -> "party name"
      [] OTHER -> s

\* str.replace('_', ' ')
ReplaceUnderscore(s) ==
    CASE s = "case_number" -> "case number"
      [] s = "Party_Name" -> "Party Name"
      [] s = "party_name" -> "party name"
      [] s = "total_amount" -> "total amount"
      [] s = "extra_key" -> "extra key"
      [] OTHER -> s

\* "sub in s" for the strings above
Contains(s, sub) ==
    \/ sub # "" /\ s = sub
    \/ <<s, sub>> \in { <<"party_name", "name">>, <<"party name", "name">>,
                        <<"case number", "case">>, <<"total amount", "amount">>,
                        <<"total amount", "total">> }

\* The lines a source can hold: "Case Number: 24STFL00615" and so on.  Labels
\* are kept in lower case, every search of the code being case-insensitive.
LongValue == "LONG"

LineCase == [label |-> "case number", value |-> "24STFL00615"]

LineName == [label |-> "party name", value |-> "John Smith"]

LineAmount == [label |-> "total amount", value |-> "$1,500.00"]

LineLong == [label |-> "total amount", value |-> LongValue]

\* What a text holds that is no line of the pool: the path of a file source,
\* the address of a URL source, the note a failed fetch leaves
LinePath == [label |-> "/path/of/file.txt", value |-> ""]

LineUrl == [label |-> "http://host/page", value |-> ""]

LineFetchError == [label |-> "Error extracting from URL", value |-> ""]

\* len(value); LongValue stands for a value of 250 characters
ValueLen(v) == IF v = LongValue THEN 250 ELSE Len(v)

\* What follows the label when the line stands in the header
\* "=== Source: {source[:50]}... ===" of _collect_text_from_sources
HeaderRest(v) == IF v = LongValue THEN "LONG[:36]... ===" ELSE v \o "... ==="

\* A segment of a text: a line, in a header or not
Seg(line, hdr) == [line |-> line, hdr |-> hdr]

-----------------------------------------------------------------------------
(* Sources and the two texts built from them *)

Src(kind, line) == [kind |-> kind, line |-> line]

\* kind "text": the line given literally; "file": a .txt file holding the
\* line; "url": a page whose text is the line
SourceLists ==
    { <<>>,
      <<Src("text", LineCase)>>,
      <<Src("file", LineAmount)>>, <<Src("text", LineLong)>>,
      <<Src("url", LineCase)>>,
      <<Src("text", LineCase), Src("file", LineName)>>,
      <<Src("file", LineName), Src("text", LineAmount)>>,
      <<Src("file", LineLong), Src("text", LineAmount)>> }

\* len(source) of a literal source "Label: value"
SourceLen(s) == Len(s.line.label) + 2 + ValueLen(s.line.value)

\* Path(source).exists() on a literal source: a string longer than a file
\* name can be (255 characters) makes the stat call fail with ENAMETOOLONG,
\* which pathlib answers with False or passes on as OSError, depending on the
\* Python the program runs on (3.11 raises)
ExistsRaises(srcs) ==
    IF \E i \in 1..Len(srcs) : srcs[i].kind = "text" /\ SourceLen(srcs[i]) > 255
    THEN BOOLEAN ELSE {FALSE}

\* DataExtractionAgent._collect_text_from_sources: every source contributes a
\* header with the first 50 characters of the source string, then its text.
\* A literal source is repeated in its own header, a file or URL source has
\* its path or address there; a failed fetch leaves an error note.
RECURSIVE _collect_text_from_sources(_, _)
_collect_text_from_sources(srcs, fetch_ok) ==
    IF srcs = <<>> THEN <<>>
    ELSE LET s == Head(srcs)
             part == CASE s.kind = "url" ->
                            <<Seg(LineUrl, TRUE),
                              IF fetch_ok THEN Seg(s.line, FALSE)
                              ELSE Seg(LineFetchError, FALSE)>>
                       [] s.kind = "file" -> <<Seg(LinePath, TRUE), Seg(s.line, FALSE)>>
                       [] OTHER -> <<Seg(s.line, TRUE), Seg(s.line, FALSE)>>
         IN part \o _collect_text_from_sources(Tail(srcs), fetch_ok)

\* The source-text loop of _perform_extraction_iteration: a source that is an
\* existing path is read, any other source string (a URL too) is appended as
\* it is; no header.
RECURSIVE SourceText(_)
SourceText(srcs) ==
    IF srcs = <<>> THEN <<>>
    ELSE LET s == Head(srcs)
             part == IF s.kind = "url" THEN <<Seg(LineUrl, FALSE)>>
                     ELSE <<Seg(s.line, FALSE)>>
         IN part \o SourceText(Tail(srcs))

-----------------------------------------------------------------------------
(* The regular expressions, by what they capture from one segment *)

\* The rule table of _extract_with_patterns, in dict order
PatternNames ==
    <<"case_number", "phone", "email", "date", "money", "address", "name",
      "ssn", "zip">>

\* str(re.findall(patterns[pattern_name], segment)[0]), None without a match
CategoryCapture(pattern_name, seg) ==
    CASE pattern_name = "case_number" /\ seg.line.label = "case number"
            /\ seg.line.value = "24STFL00615" -> seg.line.value
      [] pattern_name = "name" /\ Contains(seg.line.label, "name")
            /\ seg.line.value = "John Smith" ->
               IF seg.hdr THEN "John Smith... " ELSE "John Smith"
      [] pattern_name = "money" /\ seg.line.value = "$1,500.00" -> "1,500.00"
      [] OTHER -> None

\* re.search(rf'{re.escape(term)}\s*:?\s*([^\n\r]+)', segment, re.IGNORECASE)
\* .group(1).strip(), None without a match
PhraseCapture(term, seg) ==
    IF term # "" /\ seg.line.label = Lower(term)
    THEN IF seg.hdr THEN HeaderRest(seg.line.value) ELSE seg.line.value
    ELSE None

\* The name pattern of _improve_field_extraction: two words after "name"
ImproveNameCapture(key, seg) ==
    IF Contains(seg.line.label, "name") /\ seg.line.value = "John Smith"
    THEN "John Smith" ELSE None

\* The case pattern of _improve_field_extraction
ImproveCaseCapture(key, seg) ==
    IF seg.line.label = "case number" /\ seg.line.value = "24STFL00615"
    THEN "24STFL00615" ELSE None

\* re.search / re.findall over the text: the first segment, if any, that the
\* capture named by kind takes something from
RECURSIVE FirstCapture(_, _, _)
FirstCapture(kind, key, text) ==
    IF text = <<>> THEN None
    ELSE LET c == CASE kind = "category" -> CategoryCapture(key, Head(text))
                    [] kind = "phrase" -> PhraseCapture(key, Head(text))
                    [] kind = "improve_name" -> ImproveNameCapture(key, Head(text))
                    [] kind = "improve_case" -> ImproveCaseCapture(key, Head(text))
         IN IF c # None THEN c ELSE FirstCapture(kind, key, Tail(text))

-----------------------------------------------------------------------------
(* DataExtractionAgent *)

\* The category loop of _extract_with_patterns for one field, from the i-th
\* rule on: the first rule whose name occurs in the field's name or alt text
\* and that matches somewhere in the text gives the value; a rule that applies
\* but matches nothing lets the loop go on.
RECURSIVE CategoryMatch(_, _, _)
CategoryMatch(field, text, i) ==
    IF i > Len(PatternNames) THEN None
    ELSE LET pattern_name == PatternNames[i]
             field_lower == Lower(field.name)
             alt_lower == IF field.alt_text # "" THEN Lower(field.alt_text) ELSE ""
             matches == FirstCapture("category", pattern_name, text)
         IN IF (Contains(field_lower, pattern_name) \/ Contains(alt_lower, pattern_name))
               /\ matches # None
            THEN matches
            ELSE CategoryMatch(field, text, i + 1)

\* search_terms of _extract_with_patterns: the alt text, then the cleaned name
\* (the pool's names hold no '.' and no outer blanks)
SearchTerms(field) ==
    LET cleaned_name == ReplaceUnderscore(field.name)
    IN (IF field.alt_text # "" THEN <<field.alt_text>> ELSE <<>>)
       \o (IF cleaned_name # "" THEN <<cleaned_name>> ELSE <<>>)

\* The phrase loop: the first term whose first match has a length strictly
\* between 0 and 200 gives the value
RECURSIVE PhraseMatch(_, _)
PhraseMatch(terms, text) ==
    IF terms = <<>> THEN None
    ELSE LET value == FirstCapture("phrase", Head(terms), text)
         IN IF value # None /\ ValueLen(value) > 0 /\ ValueLen(value) < 200
            THEN value
            ELSE PhraseMatch(Tail(terms), text)

\* Variant of PatternConfidence: a category match counts as high confidence
PatternConfidence_High(by_category) ==
    IF by_category THEN 95 ELSE 60

\* The confidence of a match, in hundredths: 0.8 by category, 0.6 by phrase
PatternConfidence(by_category) ==
    IF by_category THEN 80 ELSE 60

\* Variant of PatternEntry: a field that matches nothing gets an empty entry
PatternEntry_StoresEmpty(field, text) ==
    LET cat == CategoryMatch(field, text, 1)
        phrase == PhraseMatch(SearchTerms(field), text)
    IN IF cat # None THEN [value |-> cat, confidence |-> 80]
       ELSE [value |-> IF phrase # None THEN phrase ELSE "", confidence |-> 60]

\* One round of the "for field in form_fields" loop: the entry the field gets,
\* value None when it gets none
PatternEntry(field, text) ==
    LET cat == CategoryMatch(field, text, 1)
    IN IF cat # None THEN [value |-> cat, confidence |-> PatternConfidence(TRUE)]
       ELSE [value |-> PhraseMatch(SearchTerms(field), text),
             confidence |-> PatternConfidence(FALSE)]

FieldNames(fields) == { fields[i].name : i \in 1..Len(fields) }

FieldByName(fields, n) == fields[CHOOSE i \in 1..Len(fields) : fields[i].name = n]

\* Variant of _extract_with_patterns: the result is kept from the text that
\* was not used by an earlier run (a run uses up what it matched)
_extract_with_patterns_Stateful(text, fields) ==
    LET found == { n \in FieldNames(fields) :
                     /\ calls.extract = 0
                     /\ PatternEntry(FieldByName(fields, n), text).value # None }
    IN [extracted_data |-> [n \in found |-> PatternEntry(FieldByName(fields, n), text).value],
        confidence_scores |-> [n \in found |-> PatternEntry(FieldByName(fields, n), text).confidence]]

\* _extract_with_patterns: (extracted_data, confidence_scores)
_extract_with_patterns(text, fields) ==
    LET found == { n \in FieldNames(fields) :
                     PatternEntry(FieldByName(fields, n), text).value # None }
    IN [extracted_data |-> [n \in found |-> PatternEntry(FieldByName(fields, n), text).value],
        confidence_scores |-> [n \in found |-> PatternEntry(FieldByName(fields, n), text).confidence]]

\* Variant of Agent_calculate_quality_score: completion and mean confidence
\* only, weighted 0.6 and 0.4
Agent_calculate_quality_score_NoBonus(extracted_data, confidence_scores, fields) ==
    IF Len(fields) = 0 THEN 0
    ELSE LET completion_rate == (DictLen(extracted_data) * SCALE) \div Len(fields)
             avg_confidence ==
                 IF DictLen(confidence_scores) > 0
                 THEN (SumValues(confidence_scores) * (SCALE \div 100))
                          \div DictLen(confidence_scores)
                 ELSE 0
         IN Min((completion_rate * 6 + avg_confidence * 4) \div 10, SCALE)

\* DataExtractionAgent._calculate_quality_score
Agent_calculate_quality_score(extracted_data, confidence_scores, fields) ==
    IF Len(fields) = 0 THEN 0
    ELSE LET total_fields == Len(fields)
             filled_fields == DictLen(extracted_data)
             completion_rate == (filled_fields * SCALE) \div total_fields
             avg_confidence ==
                 IF DictLen(confidence_scores) > 0
                 THEN (SumValues(confidence_scores) * (SCALE \div 100))
                          \div DictLen(confidence_scores)
                 ELSE 0
             high_confidence_count ==
                 Cardinality({ k \in Keys(confidence_scores) : confidence_scores[k] > 80 })
             quality_bonus ==
                 IF filled_fields > 0
                 THEN (high_confidence_count * SCALE) \div filled_fields
                 ELSE 0
             quality_score ==
                 (completion_rate * 4 + avg_confidence * 4 + quality_bonus * 2) \div 10
         IN Min(quality_score, SCALE)

\* A backend reply.  brace: the text holds a '{' and its last '}' comes after
\* the first '{'.  decodes: json.loads accepts the text between the two.
Reply(brace, decodes, data, conf) ==
    [brace |-> brace, decodes |-> decodes, extracted_data |-> data,
     confidence_scores |-> conf]

\* Variant of _parse_ai_response: a text that holds no JSON is kept as a value
_parse_ai_response_KeepsRaw(response) ==
    IF response.brace /\ response.decodes
    THEN [extracted_data |-> response.extracted_data,
          confidence_scores |-> response.confidence_scores]
    ELSE [extracted_data |-> [k \in {"raw_response"} |-> "text"],
          confidence_scores |-> EmptyDict]

\* _parse_ai_response
_parse_ai_response(response) ==
    IF response.brace
    THEN IF response.decodes
         THEN [extracted_data |-> response.extracted_data,
               confidence_scores |->
                   IF DictLen(response.extracted_data) > 0
                      /\ DictLen(response.confidence_scores) = 0
                   THEN [k \in Keys(response.extracted_data) |-> 80]
                   ELSE response.confidence_scores]
         ELSE [extracted_data |-> EmptyDict, confidence_scores |-> EmptyDict]
    ELSE [extracted_data |-> EmptyDict, confidence_scores |-> EmptyDict]

\* What llm_client.generate_with_openai / generate_with_claude hand back when
\* the API call raises: the text "Error calling ... API: {e}", which may hold
\* braces but is no JSON
ErrorReplies == { Reply(b, FALSE, EmptyDict, EmptyDict) : b \in BOOLEAN }

\* A backend of a generative provider, as one call finds it.  kind is
\*   "unavailable": importing llm_client, or building its client, raises,
\*   "transport":   the API call made inside llm_client raises,
\*   "reply":       the API call returns the text reply.
Backend(kind, reply) == [kind |-> kind, reply |-> reply]

\* llm_client.generate_with_openai: an exception of the API call is caught and
\* turned into the returned text
generate_with_openai(backend, error_reply) ==
    IF backend.kind = "transport" THEN error_reply ELSE backend.reply

\* llm_client.generate_with_claude: the same, for every way of sending
generate_with_claude(backend, error_reply) ==
    IF backend.kind = "transport" THEN error_reply ELSE backend.reply

\* _extract_with_openai: falls back to the patterns when anything raises
_extract_with_openai(text, fields, backend, error_reply) ==
    IF backend.kind = "unavailable"
    THEN _extract_with_patterns(text, fields)
    ELSE _parse_ai_response(generate_with_openai(backend, error_reply))

\* _extract_with_anthropic
_extract_with_anthropic(text, fields, backend, error_reply) ==
    IF backend.kind = "unavailable"
    THEN _extract_with_patterns(text, fields)
    ELSE _parse_ai_response(generate_with_claude(backend, error_reply))

\* DataExtractionAgent.execute.  raises: something inside the try block raises
\* (the except branch answers).  The field map is returned by value here; the
\* caller puts it on the heap.
Agent_execute(provider, srcs, fields, fetch_ok, backend, error_reply, raises) ==
    IF raises
    THEN [success |-> FALSE, extracted_data |-> EmptyDict,
          confidence_scores |-> EmptyDict, quality_score |-> 0,
          fields_extracted |-> None]
    ELSE LET all_text == _collect_text_from_sources(srcs, fetch_ok)
             ext == CASE provider = "openai" ->
                            _extract_with_openai(all_text, fields, backend, error_reply)
                      [] provider = "anthropic" ->
                            _extract_with_anthropic(all_text, fields, backend, error_reply)
                      [] OTHER -> _extract_with_patterns(all_text, fields)
         IN [success |-> TRUE, extracted_data |-> ext.extracted_data,
             confidence_scores |-> ext.confidence_scores,
             quality_score |-> Agent_calculate_quality_score(
                                   ext.extracted_data, ext.confidence_scores, fields),
             fields_extracted |-> DictLen(ext.extracted_data)]

-----------------------------------------------------------------------------
(* QualityAssuranceAgent *)

\* The three patterns _find_missing_field tries for one term; on a line
\* "Label: value" each of them captures the value
MissingPatterns(term) == <<term, term, Lower(term)>>

RECURSIVE FindWithPatterns(_, _)
FindWithPatterns(patterns, text) ==
    IF patterns = <<>> THEN None
    ELSE LET value == FirstCapture("phrase", Head(patterns), text)
         IN IF value # None /\ ValueLen(value) > 0 /\ ValueLen(value) < 200
            THEN value
            ELSE FindWithPatterns(Tail(patterns), text)

RECURSIVE FindWithTerms(_, _)
FindWithTerms(terms, text) ==
    IF terms = <<>> THEN None
    ELSE IF Head(terms) # "" /\ FindWithPatterns(MissingPatterns(Head(terms)), text) # None
    THEN FindWithPatterns(MissingPatterns(Head(terms)), text)
    ELSE FindWithTerms(Tail(terms), text)

\* _find_missing_field
_find_missing_field(field, source_text) ==
    FindWithTerms(<<field.alt_text, ReplaceUnderscore(field.name)>>, source_text)

\* float(amt.replace(',', '')) of every money match of the text, in cents
RECURSIVE Amounts(_)
Amounts(text) ==
    IF text = <<>> THEN {}
    ELSE (IF Head(text).line.value = "$1,500.00" THEN {150000} ELSE {})
         \cup Amounts(Tail(text))

Max(S) == CHOOSE x \in S : \A y \in S : y <= x

\* f"${amount:,.2f}"
FormatMoney(cents) == IF cents = 150000 THEN "$1,500.00" ELSE "$?"

\* _improve_field_extraction
_improve_field_extraction(field_name, source_text) ==
    LET field_name_clean == ReplaceUnderscore(Lower(field_name))
    IN CASE Contains(field_name_clean, "name") ->
                FirstCapture("improve_name", "name", source_text)
         [] ~Contains(field_name_clean, "name") /\ Contains(field_name_clean, "case") ->
                FirstCapture("improve_case", "case", source_text)
         [] ~Contains(field_name_clean, "name") /\ ~Contains(field_name_clean, "case")
               /\ (Contains(field_name_clean, "amount") \/ Contains(field_name_clean, "total")) ->
                IF Amounts(source_text) # {}
                THEN FormatMoney(Max(Amounts(source_text)))
                ELSE None
         [] OTHER -> None

\* dict.update
Update(d, c) ==
    [k \in Keys(d) \cup Keys(c) |-> IF k \in Keys(c) THEN c[k] ELSE d[k]]

\* Variant of ShouldRetry: the number of corrections is not looked at
ShouldRetry_ScoreOnly(overall_score, corrected_fields) ==
    overall_score < Score(80)

\* should_retry of _assess_quality
ShouldRetry(overall_score, corrected_fields) ==
    overall_score < Score(80) /\ DictLen(corrected_fields) > 0

\* _assess_quality.  issues and recommendations are kept as sets of
\* <<kind, field name>>, their order in the lists left out.
_assess_quality(extracted_data, confidence_scores, fields, source_text) ==
    LET total_fields == Len(fields)
        filled_fields == DictLen(extracted_data)
        completion_rate ==
            IF total_fields > 0 THEN (filled_fields * SCALE) \div total_fields ELSE 0
        confidence_avg ==
            IF DictLen(confidence_scores) > 0
            THEN (SumValues(confidence_scores) * (SCALE \div 100))
                     \div DictLen(confidence_scores)
            ELSE 0
        missing == FieldNames(fields) \ Keys(extracted_data)
        found == { n \in missing :
                     _find_missing_field(FieldByName(fields, n), source_text) # None }
        low == { n \in Keys(confidence_scores) : confidence_scores[n] < 60 }
        improved == { n \in low :
                        /\ _improve_field_extraction(n, source_text) # None
                        /\ _improve_field_extraction(n, source_text) # Get(extracted_data, n) }
        corrected_fields ==
            Update([n \in found |-> _find_missing_field(FieldByName(fields, n), source_text)],
                   [n \in improved |-> _improve_field_extraction(n, source_text)])
        corrected_completion ==
            IF total_fields > 0
            THEN ((filled_fields + DictLen(corrected_fields)) * SCALE) \div total_fields
            ELSE 0
        overall_score == (corrected_completion * 6 + confidence_avg * 4) \div 10
    IN [overall_score |-> overall_score,
        completion_rate |-> completion_rate,
        confidence_avg |-> confidence_avg,
        issues |-> { <<"missing", n>> : n \in missing \ found }
                       \cup { <<"low_confidence", n>> : n \in low },
        recommendations |-> { <<"found_missing", n>> : n \in found }
                                \cup { <<"improved", n>> : n \in improved },
        corrected_fields |-> corrected_fields,
        should_retry |-> ShouldRetry(overall_score, corrected_fields)]

NoAssessment == [overall_score |-> 0, completion_rate |-> 0, confidence_avg |-> 0,
                 issues |-> {}, recommendations |-> {},
                 corrected_fields |-> EmptyDict, should_retry |-> FALSE]

\* QualityAssuranceAgent.execute.  raises: the try block raises.
QA_execute(extracted_data, confidence_scores, fields, source_text, raises) ==
    IF raises
    THEN [success |-> FALSE, assessment |-> NoAssessment, should_retry |-> FALSE,
          corrected_fields |-> EmptyDict]
    ELSE LET assessment ==
                 _assess_quality(extracted_data, confidence_scores, fields, source_text)
         IN [success |-> TRUE, assessment |-> assessment,
             should_retry |-> assessment.should_retry,
             corrected_fields |-> assessment.corrected_fields]

-----------------------------------------------------------------------------
(* The inputs of a run *)

\* Sub-lists of the field pool, in pool order
RECURSIVE SubLists(_)
SubLists(q) ==
    IF q = <<>> THEN { <<>> }
    ELSE LET rest == SubLists(Tail(q))
         IN rest \cup { <<Head(q)>> \o r : r \in rest }

Schemas == { q \in SubLists(FieldPool) : Len(q) <= MaxFields }

Providers == {"pattern", "openai", "anthropic"}

\* The value a backend reads for a key, when it reads the right one
TrueValue(k) ==
    CASE k = "case_number" -> "24STFL00615"
      [] k = "Party_Name" -> "John Smith"
      [] k = "total_amount" -> "$1,500.00"
      [] OTHER -> "n/a"

\* The JSON replies of a backend for a schema.  st tells, for every field,
\* whether the reply has it ("low": with confidence 0.3, "high": with 0.95).
\* shape "wrong": every value differs from the text's; "extra": one more key
\* that is no field of the form; "no_conf": no confidence object; "orphan":
\* a confidence 0.3 for every field the reply has no value for.
ReplyShapes == {"plain", "wrong", "extra", "no_conf", "orphan"}

JsonReplies(fields) ==
    { LET names == FieldNames(fields)
          present == { n \in names : st[n] # "absent" }
          dkeys == present \cup (IF shape = "extra" THEN {ExtraKey} ELSE {})
          ckeys == CASE shape = "no_conf" -> {}
                     [] shape = "orphan" -> names
                     [] OTHER -> dkeys
      IN Reply(TRUE, TRUE,
               [k \in dkeys |-> IF shape \in {"wrong", "orphan"}
                                THEN "WRONG" ELSE TrueValue(k)],
               [k \in ckeys |-> IF k \in names /\ st[k] # "high" THEN 30 ELSE 95])
      : st \in [FieldNames(fields) -> {"absent", "low", "high"}],
        shape \in ReplyShapes }

NoReply == Reply(FALSE, FALSE, EmptyDict, EmptyDict)

Backends(fields) ==
    { Backend("unavailable", NoReply), Backend("transport", NoReply) }
        \cup { Backend("reply", r) :
                 r \in JsonReplies(fields)
                         \cup { Reply(b, FALSE, EmptyDict, EmptyDict) : b \in BOOLEAN } }

-----------------------------------------------------------------------------
(* AgenticFormFillerOrchestrator *)

\* AgenticFormFillerOrchestrator._calculate_quality_score
Orchestrator_calculate_quality_score(extracted_data, confidence_scores, fields) ==
    IF Len(fields) = 0 THEN 0
    ELSE LET total_fields == Len(fields)
             filled_fields == DictLen(extracted_data)
             completion_rate == (filled_fields * SCALE) \div total_fields
             avg_confidence ==
                 IF DictLen(confidence_scores) > 0
                 THEN (SumValues(confidence_scores) * (SCALE \div 100))
                          \div DictLen(confidence_scores)
                 ELSE 0
             quality_score == (completion_rate * 6 + avg_confidence * 4) \div 10
         IN Min(quality_score, SCALE)

NoResult == [success |-> FALSE, extracted_data |-> 0, confidence_scores |-> EmptyDict,
             quality_score |-> 0, fields_extracted |-> None, source_text |-> <<>>,
             iteration |-> 0]

NoQA == [success |-> FALSE, assessment |-> NoAssessment, should_retry |-> FALSE,
         corrected_fields |-> EmptyDict]

\* The dict at an address; address 0 is the literal {} of the initial results
Deref(a) == IF a = 0 THEN EmptyDict ELSE heap[a]

\* No call of _create_fdf under way
NoFdf == [pc |-> "idle", field_data |-> <<>>, content |-> None]

\* No WorkflowOrchestrator in use
NoWorkflow == [pc |-> "idle"]

\* process_form, lines 877-885, and the arguments of the call
Init ==
    /\ pc = "Initializing"
    /\ pdf_fields \in Schemas
    /\ sources \in SourceLists
    /\ output_path \in BOOLEAN
    /\ max_iterations \in 1..MaxIterations
    /\ ai_provider \in Providers
    /\ form_fields = <<>>
    /\ heap = <<>>
    /\ extraction_result = NoResult
    /\ current_data = 0
    /\ current_quality = 0
    /\ iteration = 0
    /\ qa_result = NoQA
    /\ results = [success |-> FALSE, iterations |-> <<>>, final_data |-> 0,
                  quality_score |-> 0, filled_pdf_path |-> output_path,
                  error |-> None, total_iterations |-> None]
    /\ calls = [schema |-> 0, extract |-> 0, assess |-> 0, correct |-> 0, fill |-> 0]
    /\ history = [recorded |-> <<>>, backend |-> None, all_text |-> <<>>,
                  response |-> NoReply, schema |-> None, fill |-> None]
    /\ fdf = NoFdf
    /\ wf = NoWorkflow

\* An audit record with the dicts it refers to copied in
Snapshot(rec) ==
    IF "extracted_data" \in DOMAIN rec
    THEN [rec EXCEPT !.extracted_data = Deref(rec.extracted_data)]
    ELSE rec

\* Variant of Initializing: a form that cannot be read counts as a form
\* without fields
Initializing_IgnoresFailure ==
    /\ pc = "Initializing"
    /\ \E ok \in BOOLEAN :
         /\ form_fields' = IF ok THEN pdf_fields ELSE <<>>
         /\ history' = [history EXCEPT !.schema = IF ok THEN "ok" ELSE "failed"]
    /\ pc' = "Extracting"
    /\ calls' = [calls EXCEPT !.schema = @ + 1]
    /\ UNCHANGED <<fdf, wf, pdf_fields, sources, output_path, max_iterations, ai_provider,
                   heap, extraction_result, current_data, current_quality,
                   iteration, qa_result, results>>

\* Step 1: FormFieldExtractor.extract_pdf_fields returns the fields or raises
\* (pdftk missing, form unreadable); the except branch of process_form then
\* returns the initial results with the error.
Initializing ==
    /\ pc = "Initializing"
    /\ \E ok \in BOOLEAN :
         IF ok
         THEN /\ form_fields' = pdf_fields
              /\ pc' = "Extracting"
              /\ results' = results
              /\ history' = [history EXCEPT !.schema = "ok"]
         ELSE /\ form_fields' = form_fields
              /\ pc' = "Failed"
              /\ results' = [results EXCEPT !.error = "Error extracting fields"]
              /\ history' = [history EXCEPT !.schema = "failed"]
    /\ calls' = [calls EXCEPT !.schema = @ + 1]
    /\ UNCHANGED <<fdf, wf, pdf_fields, sources, output_path, max_iterations, ai_provider,
                   heap, extraction_result, current_data, current_quality,
                   iteration, qa_result>>

\* The outcomes the model draws only where the run depends on them: a fetch
\* can fail only where a source is a URL, a backend exists only for a
\* generative provider
FetchOutcomes(srcs) ==
    IF \E i \in 1..Len(srcs) : srcs[i].kind = "url" THEN BOOLEAN ELSE {TRUE}

BackendsOf(provider, fields) ==
    IF provider = "pattern" THEN { Backend("unavailable", NoReply) }
    ELSE Backends(fields)

\* Step 2 when Path(source).exists() raises in the source-text loop of
\* _perform_extraction_iteration (line 985, outside every try of that
\* function): the agent is not called and the except branch of process_form
\* returns the initial results with the error.
ExtractingRaises ==
    /\ results' = [results EXCEPT !.error = "File name too long"]
    /\ pc' = "Failed"
    /\ UNCHANGED <<heap, extraction_result, current_data, current_quality,
                   iteration, calls, history>>

\* Variant of AfterExtraction: an extraction that reports no success fails
\* the run
AfterExtraction_ChecksSuccess(result) ==
    IF result.success THEN "Loop" ELSE "Failed"

\* Lines 899-905: the outcome of the extraction is appended and the loop
\* follows, whatever its 'success' says
AfterExtraction(result) ==
    "Loop"

\* Step 2: _perform_extraction_iteration(sources, form_fields, 1), the append
\* to results['iterations'] and the two assignments after it.  current_data
\* is the very dict the extraction result holds.
ExtractingReturns ==
    /\ \E fetch_ok \in FetchOutcomes(sources), raises \in BOOLEAN,
          backend \in BackendsOf(ai_provider, form_fields),
          error_reply \in ErrorReplies :
         /\ backend.kind # "transport" => error_reply = NoReply
         /\ \E r \in { Agent_execute(ai_provider, sources, form_fields, fetch_ok,
                                     backend, error_reply, raises) } :
              LET result == [success |-> r.success, extracted_data |-> Len(heap) + 1,
                             confidence_scores |-> r.confidence_scores,
                             quality_score |-> r.quality_score,
                             fields_extracted |-> r.fields_extracted,
                             source_text |-> SourceText(sources), iteration |-> 1]
              IN /\ heap' = Append(heap, r.extracted_data)
                 /\ extraction_result' = result
                 /\ results' = [results EXCEPT !.iterations = Append(@, result)]
                 /\ current_data' = result.extracted_data
                 /\ current_quality' = result.quality_score
                 /\ pc' = AfterExtraction(result)
                 /\ calls' = [calls EXCEPT !.extract = @ + 1]
                 /\ history' =
                       [history EXCEPT
                          !.recorded = <<[result EXCEPT !.extracted_data = r.extracted_data]>>,
                          !.backend = IF ai_provider = "pattern" \/ raises
                                      THEN None ELSE backend.kind,
                          !.all_text = _collect_text_from_sources(sources, fetch_ok),
                          !.response = CASE ai_provider = "pattern" \/ raises -> NoReply
                                         [] backend.kind = "transport" -> error_reply
                                         [] OTHER -> backend.reply]
    /\ iteration' = 2

Extracting ==
    /\ pc = "Extracting"
    /\ \E exists_raises \in ExistsRaises(sources) :
         IF exists_raises THEN ExtractingRaises ELSE ExtractingReturns
    /\ UNCHANGED <<fdf, wf, pdf_fields, sources, output_path, max_iterations, ai_provider,
                   form_fields, qa_result>>

\* Variant of LoopHead: the loop has no upper bound
LoopHead_NoBound ==
    /\ pc = "Loop"
    /\ pc' = IF current_quality >= Score(90) THEN "Finalizing" ELSE "Assessing"
    /\ UNCHANGED <<fdf, wf, pdf_fields, sources, output_path, max_iterations, ai_provider,
                   form_fields, heap, extraction_result, current_data,
                   current_quality, iteration, qa_result, results, calls, history>>

\* Variant of LoopHead: the quality threshold is not looked at
LoopHead_NoGate ==
    /\ pc = "Loop"
    /\ pc' = IF iteration > max_iterations THEN "Finalizing" ELSE "Assessing"
    /\ UNCHANGED <<fdf, wf, pdf_fields, sources, output_path, max_iterations, ai_provider,
                   form_fields, heap, extraction_result, current_data,
                   current_quality, iteration, qa_result, results, calls, history>>

\* The head of "for iteration in range(2, max_iterations + 1)" and the
\* quality threshold that opens its body
LoopHead ==
    /\ pc = "Loop"
    /\ pc' = IF iteration > max_iterations THEN "Finalizing"
             ELSE IF current_quality >= Score(90) THEN "Finalizing"
             ELSE "Assessing"
    /\ UNCHANGED <<fdf, wf, pdf_fields, sources, output_path, max_iterations, ai_provider,
                   form_fields, heap, extraction_result, current_data,
                   current_quality, iteration, qa_result, results, calls, history>>

\* Variant of Assessing: the loop is left only when the assessment failed
Assessing_IgnoresRetry ==
    /\ pc = "Assessing"
    /\ \E raises \in BOOLEAN :
         \E qa \in { QA_execute(Deref(current_data),
                                extraction_result.confidence_scores,
                                form_fields, extraction_result.source_text, raises) } :
           /\ qa_result' = qa
           /\ pc' = IF ~qa.success THEN "Finalizing" ELSE "Correcting"
    /\ calls' = [calls EXCEPT !.assess = @ + 1]
    /\ UNCHANGED <<fdf, wf, pdf_fields, sources, output_path, max_iterations, ai_provider,
                   form_fields, heap, extraction_result, current_data,
                   current_quality, iteration, results, history>>

\* quality_assurance_agent.execute on the current field map, and the break
\* that follows it
Assessing ==
    /\ pc = "Assessing"
    /\ \E raises \in BOOLEAN :
         \E qa \in { QA_execute(Deref(current_data),
                                extraction_result.confidence_scores,
                                form_fields, extraction_result.source_text, raises) } :
           /\ qa_result' = qa
           /\ pc' = IF ~qa.success \/ ~qa.should_retry
                    THEN "Finalizing" ELSE "Correcting"
    /\ calls' = [calls EXCEPT !.assess = @ + 1]
    /\ UNCHANGED <<fdf, wf, pdf_fields, sources, output_path, max_iterations, ai_provider,
                   form_fields, heap, extraction_result, current_data,
                   current_quality, iteration, results, history>>

\* Variant of ApplyCorrections: the corrections replace the field map
ApplyCorrections_Replace(h, addr, corrected_fields) ==
    [h EXCEPT ![addr] = corrected_fields]

\* current_data.update(corrected_fields): the dict at current_data changes in
\* place
ApplyCorrections(h, addr, corrected_fields) ==
    [h EXCEPT ![addr] = Update(@, corrected_fields)]

\* Variant of Correcting: the corrections are merged and no record is appended
Correcting_NoRecord ==
    /\ pc = "Correcting"
    /\ LET corrected_fields == qa_result.corrected_fields
       IN IF DictLen(corrected_fields) > 0
          THEN /\ heap' = [heap EXCEPT ![current_data] = Update(@, corrected_fields)]
               /\ current_quality' = Orchestrator_calculate_quality_score(
                                         heap'[current_data],
                                         extraction_result.confidence_scores,
                                         form_fields)
               /\ calls' = [calls EXCEPT !.correct = @ + 1]
               /\ UNCHANGED <<results, history>>
          ELSE UNCHANGED <<heap, current_quality, results, calls, history>>
    /\ iteration' = iteration + 1
    /\ pc' = "Loop"
    /\ UNCHANGED <<fdf, wf, pdf_fields, sources, output_path, max_iterations, ai_provider,
                   form_fields, extraction_result, current_data, qa_result>>

\* "Apply corrections": merge, re-evaluate the quality, append the record, and
\* go to the next round of the loop
Correcting ==
    /\ pc = "Correcting"
    /\ LET corrected_fields == qa_result.corrected_fields
       IN IF DictLen(corrected_fields) > 0
          THEN /\ heap' = ApplyCorrections(heap, current_data, corrected_fields)
               /\ current_quality' = Orchestrator_calculate_quality_score(
                                         heap'[current_data],
                                         extraction_result.confidence_scores,
                                         form_fields)
               /\ LET rec == [iteration |-> iteration,
                              type |-> "quality_improvement",
                              corrections_applied |-> corrected_fields,
                              quality_score |-> current_quality',
                              issues_resolved |-> DictLen(corrected_fields)]
                  IN /\ results' = [results EXCEPT !.iterations = Append(@, rec)]
                     /\ calls' = [calls EXCEPT !.correct = @ + 1]
                     /\ history' = [history EXCEPT !.recorded = Append(@, rec)]
          ELSE UNCHANGED <<heap, current_quality, results, calls, history>>
    /\ iteration' = iteration + 1
    /\ pc' = "Loop"
    /\ UNCHANGED <<fdf, wf, pdf_fields, sources, output_path, max_iterations, ai_provider,
                   form_fields, extraction_result, current_data, qa_result>>

\* What process_form returns after step 4: results['filled_pdf_path'], which
\* was set to output_path when results was built, is assigned output_path
\* when the form was filled, and the final results.update follows in any case
FinalResults(filled_successfully) ==
    [results EXCEPT !.filled_pdf_path = IF filled_successfully THEN output_path ELSE @,
                    !.success = TRUE,
                    !.final_data = current_data,
                    !.quality_score = current_quality,
                    !.total_iterations = Len(results.iterations)]

\* Variant of Finalizing: a failed write fails the run
Finalizing_WriteFailureFails ==
    /\ pc = "Finalizing"
    /\ IF output_path /\ DictLen(Deref(current_data)) > 0
       THEN \E filled_successfully \in BOOLEAN :
              /\ calls' = [calls EXCEPT !.fill = @ + 1]
              /\ history' = [history EXCEPT
                                !.fill = IF filled_successfully THEN "ok" ELSE "failed"]
              /\ results' = IF filled_successfully THEN FinalResults(TRUE)
                            ELSE [results EXCEPT !.error = "Failed to fill PDF form"]
              /\ pc' = IF filled_successfully THEN "Done" ELSE "Failed"
       ELSE /\ calls' = calls
            /\ history' = history
            /\ results' = FinalResults(FALSE)
            /\ pc' = "Done"
    /\ UNCHANGED <<fdf, wf, pdf_fields, sources, output_path, max_iterations, ai_provider,
                   form_fields, heap, extraction_result, current_data,
                   current_quality, iteration, qa_result>>

\* Step 4 and the final results.update: the form is filled when a path was
\* given and the field map is not empty; fill_pdf_form answers True or False
\* and never raises.
Finalizing ==
    /\ pc = "Finalizing"
    /\ IF output_path /\ DictLen(Deref(current_data)) > 0
       THEN \E filled_successfully \in BOOLEAN :
              /\ calls' = [calls EXCEPT !.fill = @ + 1]
              /\ history' = [history EXCEPT
                                !.fill = IF filled_successfully THEN "ok" ELSE "failed"]
              /\ results' = FinalResults(filled_successfully)
       ELSE /\ calls' = calls
            /\ history' = history
            /\ results' = FinalResults(FALSE)
    /\ pc' = "Done"
    /\ UNCHANGED <<fdf, wf, pdf_fields, sources, output_path, max_iterations, ai_provider,
                   form_fields, heap, extraction_result, current_data,
                   current_quality, iteration, qa_result>>

Next ==
    \/ Initializing
    \/ Extracting
    \/ LoopHead
    \/ Assessing
    \/ Correcting
    \/ Finalizing

Spec == Init /\ [][Next]_vars

-----------------------------------------------------------------------------
(* The pattern strategy run repeatedly: one DataExtractionAgent, one list of
   sources, one schema; the corpus is collected once and
   _extract_with_patterns is called on it up to MaxRuns times *)

PatternInit ==
    /\ pc = "PatternCollect"
    /\ pdf_fields \in Schemas
    /\ sources \in SourceLists
    /\ output_path = FALSE
    /\ max_iterations = 1
    /\ ai_provider = "pattern"
    /\ form_fields = pdf_fields
    /\ heap = <<>>
    /\ extraction_result = NoResult
    /\ current_data = 0
    /\ current_quality = 0
    /\ iteration = 0
    /\ qa_result = NoQA
    /\ results = [success |-> FALSE, iterations |-> <<>>, final_data |-> 0,
                  quality_score |-> 0, filled_pdf_path |-> output_path,
                  error |-> None, total_iterations |-> None]
    /\ calls = [schema |-> 0, extract |-> 0, assess |-> 0, correct |-> 0, fill |-> 0]
    /\ history = [recorded |-> <<>>, backend |-> None, all_text |-> <<>>,
                  response |-> NoReply, schema |-> None, fill |-> None]
    /\ fdf = NoFdf
    /\ wf = NoWorkflow

\* all_text = await self._collect_text_from_sources(sources).  The call
\* raises when Path(source).exists() (line 273) raises.
PatternCollect ==
    /\ pc = "PatternCollect"
    /\ \E fetch_ok \in FetchOutcomes(sources), exists_raises \in ExistsRaises(sources) :
         IF exists_raises
         THEN /\ history' = history
              /\ pc' = "PatternRaised"
         ELSE /\ history' = [history EXCEPT
                               !.all_text = _collect_text_from_sources(sources, fetch_ok)]
              /\ pc' = "PatternRun"
    /\ UNCHANGED <<fdf, wf, pdf_fields, sources, output_path, max_iterations, ai_provider,
                   form_fields, heap, extraction_result, current_data,
                   current_quality, iteration, qa_result, results, calls>>

\* extracted_data, confidence_scores =
\*     await self._extract_with_patterns(all_text, form_fields)
\* The call builds two new dicts and writes to nothing else.
PatternRun ==
    /\ pc = "PatternRun"
    /\ calls.extract < MaxRuns
    /\ \E r \in { _extract_with_patterns(history.all_text, form_fields) } :
         history' = [history EXCEPT !.recorded = Append(@, r)]
    /\ calls' = [calls EXCEPT !.extract = @ + 1]
    /\ UNCHANGED <<fdf, wf, pc, pdf_fields, sources, output_path, max_iterations,
                   ai_provider, form_fields, heap, extraction_result,
                   current_data, current_quality, iteration, qa_result, results>>

PatternNext ==
    \/ PatternCollect
    \/ PatternRun

PatternSpec == PatternInit /\ [][PatternNext]_vars

-----------------------------------------------------------------------------
(* PDFFormFiller._create_fdf (the same code is
   LegalFormProcessor._create_fdf of archive/development).  A value is a
   sequence of characters; field_data is the dict as the sequence of its
   items, in the order the dict holds them. *)

\* No process_form under way
FormIdle ==
    /\ pc = "idle"
    /\ pdf_fields = <<>>
    /\ sources = <<>>
    /\ output_path = FALSE
    /\ max_iterations = 1
    /\ ai_provider = "pattern"
    /\ form_fields = <<>>
    /\ heap = <<>>
    /\ extraction_result = NoResult
    /\ current_data = 0
    /\ current_quality = 0
    /\ iteration = 0
    /\ qa_result = NoQA
    /\ results = [success |-> FALSE, iterations |-> <<>>, final_data |-> 0,
                  quality_score |-> 0, filled_pdf_path |-> output_path,
                  error |-> None, total_iterations |-> None]
    /\ calls = [schema |-> 0, extract |-> 0, assess |-> 0, correct |-> 0, fill |-> 0]
    /\ history = [recorded |-> <<>>, backend |-> None, all_text |-> <<>>,
                  response |-> NoReply, schema |-> None, fill |-> None]

\* The characters of a value: the three the code escapes, and any other
Chars == {"\\", "(", ")", "a"}

RECURSIVE ValuesOfLen(_)
ValuesOfLen(n) ==
    IF n = 0 THEN { <<>> }
    ELSE { <<c>> \o v : c \in Chars, v \in ValuesOfLen(n - 1) }

Values == UNION { ValuesOfLen(n) : n \in 0..MaxValueLen }

\* str.replace(old, new) for a single character old
RECURSIVE Replace(_, _, _)
Replace(value, old, new) ==
    IF value = <<>> THEN <<>>
    ELSE (IF Head(value) = old THEN new ELSE <<Head(value)>>)
             \o Replace(Tail(value), old, new)

\* Variant of EscapeValue: the parentheses are escaped first, the backslashes
\* last
EscapeValue_BackslashLast(field_value) ==
    Replace(Replace(Replace(field_value, "(", <<"\\", "(">>),
                    ")", <<"\\", ")">>),
            "\\", <<"\\", "\\">>)

\* field_value.replace('\\', '\\\\').replace('(', '\\(').replace(')', '\\)')
EscapeValue(field_value) ==
    Replace(Replace(Replace(field_value, "\\", <<"\\", "\\">>),
                    "(", <<"\\", "(">>),
            ")", <<"\\", ")">>)

\* The loop over field_data.items(): an entry /T (name) /V (escaped value)
\* for every item whose value is not empty
RECURSIVE FdfFields(_)
FdfFields(items) ==
    IF items = <<>> THEN <<>>
    ELSE (IF Head(items).value # <<>>
          THEN <<[T |-> Head(items).name, V |-> EscapeValue(Head(items).value)]>>
          ELSE <<>>)
             \o FdfFields(Tail(items))

\* _create_fdf: the header, the entries joined, the footer
_create_fdf(field_data) ==
    [fdf_header |-> "%FDF-1.2", fdf_fields |-> FdfFields(field_data),
     fdf_footer |-> "%%EOF"]

FdfInit ==
    /\ FormIdle
    /\ wf = NoWorkflow
    /\ \E q \in Schemas :
         \E v \in [1..Len(q) -> Values] :
           fdf = [pc |-> "create",
                  field_data |-> [i \in 1..Len(q) |-> [name |-> q[i].name, value |-> v[i]]],
                  content |-> None]

\* fdf_content = PDFFormFiller._create_fdf(field_data)
CreateFdf ==
    /\ fdf.pc = "create"
    /\ fdf' = [fdf EXCEPT !.pc = "done", !.content = _create_fdf(fdf.field_data)]
    /\ UNCHANGED <<form_vars, wf>>

FdfNext ==
    \/ CreateFdf

FdfSpec == FdfInit /\ [][FdfNext]_vars

-----------------------------------------------------------------------------
(* python_agentic_framework.py: BaseAgent.execute_task and the
   WorkflowOrchestrator.  wf holds the orchestrator (agents, tasks), the
   workflow_config of the call of execute_workflow under way, the position of
   its loop, workflow_state[workflow_id], and what the call returned. *)

\* A step of workflow_config['steps']; well_formed: the dict has the keys
\* 'agent' and 'task_type'
Step(agent, task_type) ==
    [agent |-> agent, task_type |-> task_type, well_formed |-> TRUE]

MalformedStep == [agent |-> None, task_type |-> None, well_formed |-> FALSE]

StepPool ==
    { Step("PDFExtractor", "extract_fields"), Step("PDFExtractor", "no_such_task"),
      Step("NoSuchAgent", "extract_fields"), MalformedStep }

RECURSIVE StepLists(_)
StepLists(n) ==
    IF n = 0 THEN { <<>> }
    ELSE StepLists(n - 1)
             \cup { Append(q, st) : q \in { r \in StepLists(n - 1) : Len(r) = n - 1 },
                                    st \in StepPool }

\* self.agents as register_agent leaves it: the name of every registered
\* agent with the task types it has a handler for
Registries ==
    { [a \in {} |-> {}],
      [a \in {"PDFExtractor"} |-> {"extract_fields", "extract_text"}] }

\* AgentTask(task_id, agent_name, task_type, input_data), the other fields at
\* their defaults
AgentTask(task_id, agent_name, task_type) ==
    [task_id |-> task_id, agent_name |-> agent_name, task_type |-> task_type,
     status |-> "pending", result |-> "{}", error |-> None]

\* Variant of BaseAgent_execute_task: an exception of the handler is not
\* caught
BaseAgent_execute_task_NoCatch(task_handlers, task, outcome) ==
    IF task.task_type \in task_handlers
    THEN IF outcome = "returns"
         THEN [task EXCEPT !.result = "handler result", !.status = "completed"]
         ELSE [task EXCEPT !.status = "running"]
    ELSE [task EXCEPT !.error = "No handler for task type", !.status = "failed"]

\* BaseAgent.execute_task.  outcome: what awaiting the handler does, "returns"
\* or "raises" (an Exception).
BaseAgent_execute_task(task_handlers, task, outcome) ==
    IF task.task_type \in task_handlers
    THEN IF outcome = "returns"
         THEN [task EXCEPT !.result = "handler result", !.status = "completed"]
         ELSE [task EXCEPT !.error = "str(e)", !.status = "failed"]
    ELSE [task EXCEPT !.error = "No handler for task type", !.status = "failed"]

\* WorkflowOrchestrator.execute_task: the task it returns
Orchestrator_execute_task(agents, task, outcome) ==
    IF task.agent_name \in DOMAIN agents
    THEN BaseAgent_execute_task(agents[task.agent_name], task, outcome)
    ELSE [task EXCEPT !.status = "failed", !.error = "Agent not found"]

\* The handler is awaited only when the agent and the handler exist
HandlerOutcomes(agents, step) ==
    IF step.agent \in DOMAIN agents /\ step.task_type \in agents[step.agent]
    THEN {"returns", "raises"} ELSE {"none"}

\* Variant of AfterStep: a failed task does not end the loop
AfterStep_NoBreak(step_result) ==
    "loop"

\* Lines 146-148: a failed step_result breaks out of the loop
AfterStep(step_result) ==
    IF step_result.status = "failed" THEN "finish" ELSE "loop"

WorkflowInit ==
    /\ FormIdle
    /\ fdf = NoFdf
    /\ \E steps \in StepLists(MaxSteps), agents \in Registries :
         wf = [pc |-> "start", agents |-> agents, tasks |-> <<>>,
               steps |-> steps, i |-> 0,
               state |-> [status |-> None, tasks |-> <<>>, error |-> None],
               executed |-> <<>>, returned |-> None]

\* execute_workflow, lines 131-137: workflow_state[workflow_id] is set up
WorkflowStart ==
    /\ wf.pc = "start"
    /\ wf' = [wf EXCEPT !.pc = "loop", !.i = 1,
                        !.state = [status |-> "running", tasks |-> <<>>, error |-> None]]
    /\ UNCHANGED <<form_vars, fdf>>

\* One round of "for step in steps": _execute_step builds the task and
\* execute_task runs it; the result is appended, and a failed one ends the
\* loop.  A step without the key 'agent' or 'task_type' raises KeyError in
\* _execute_step, and the except branch of execute_workflow answers.
WorkflowStep ==
    /\ wf.pc = "loop"
    /\ wf.i <= Len(wf.steps)
    /\ LET step == wf.steps[wf.i]
       IN IF ~step.well_formed
          THEN wf' = [wf EXCEPT !.pc = "return",
                               !.state = [@ EXCEPT !.status = "failed",
                                                   !.error = "KeyError"]]
          ELSE \E outcome \in HandlerOutcomes(wf.agents, step) :
                 \E step_result \in
                       { Orchestrator_execute_task(
                             wf.agents,
                             AgentTask(Len(wf.state.tasks), step.agent, step.task_type),
                             outcome) } :
                   wf' = [wf EXCEPT
                            !.tasks = IF step.agent \in DOMAIN wf.agents
                                      THEN Append(@, step_result) ELSE @,
                            !.executed = Append(@, [i |-> wf.i, outcome |-> outcome]),
                            !.state = [@ EXCEPT
                                         !.tasks = Append(@, step_result),
                                         !.status = IF step_result.status = "failed"
                                                    THEN "failed" ELSE @],
                            !.i = @ + 1,
                            !.pc = AfterStep(step_result)]
    /\ UNCHANGED <<form_vars, fdf>>

\* The end of the loop with no step left
WorkflowLoopEnd ==
    /\ wf.pc = "loop"
    /\ wf.i > Len(wf.steps)
    /\ wf' = [wf EXCEPT !.pc = "finish"]
    /\ UNCHANGED <<form_vars, fdf>>

\* Lines 147-148: the status after the loop
WorkflowFinish ==
    /\ wf.pc = "finish"
    /\ wf' = [wf EXCEPT !.pc = "return",
                        !.state = [@ EXCEPT !.status = IF @ # "failed"
                                                       THEN "completed" ELSE @]]
    /\ UNCHANGED <<form_vars, fdf>>

\* return self.workflow_state[workflow_id]
WorkflowReturn ==
    /\ wf.pc = "return"
    /\ wf' = [wf EXCEPT !.pc = "done", !.returned = wf.state]
    /\ UNCHANGED <<form_vars, fdf>>

WorkflowNext ==
    \/ WorkflowStart
    \/ WorkflowStep
    \/ WorkflowLoopEnd
    \/ WorkflowFinish
    \/ WorkflowReturn

WorkflowSpec == WorkflowInit /\ [][WorkflowNext]_vars

-----------------------------------------------------------------------------

TypeOK ==
    /\ pc \in {"Initializing", "Extracting", "Loop", "Assessing", "Correcting",
               "Finalizing", "Done", "Failed"}
    /\ current_quality \in 0..SCALE
    /\ current_data \in 0..Len(heap)

-----------------------------------------------------------------------------
(* Properties *)

Terminal == {"Done", "Failed"}

\* The assessment the last Assessing step produced
LastAssessment == qa_result.assessment

\* What is left of the run, as a natural number: the rounds of the loop
\* still to come, three steps each, and the steps around the loop
Measure ==
    LET rounds == IF iteration > max_iterations THEN 0
                  ELSE max_iterations + 1 - iteration
    IN CASE pc = "Initializing" -> 3 * max_iterations + 3
         [] pc = "Extracting" -> 3 * max_iterations + 2
         [] pc = "Loop" -> 3 * rounds + 4
         [] pc = "Assessing" -> 3 * rounds + 3
         [] pc = "Correcting" -> 3 * rounds + 2
         [] pc = "Finalizing" -> 1
         [] OTHER -> 0

\* C1: for every max_iterations >= 1 and whatever the collaborators do, the
\* run terminates (every step lowers a natural-number measure, and a run that
\* is neither Done nor Failed can take a step); the provider is run at most
\* once and the Quality Assessor at most max_iterations - 1 times (at most
\* max_iterations passes in all); the run ends in Done with success = True or
\* in Failed with success = False and an error.
C1_Terminates ==
    /\ [](/\ calls.extract <= 1
          /\ calls.assess <= max_iterations - 1
          /\ calls.extract + calls.assess <= max_iterations
          /\ pc \notin Terminal => ENABLED Next
          /\ pc = "Done" => results.success /\ results.error = None
          /\ pc = "Failed" => ~results.success /\ results.error # None)
    /\ [][(Measure' < Measure) /\ (Measure' >= 0)]_vars

C1_Witness ==
    /\ pc = "Done"
    /\ max_iterations >= 3
    /\ calls.extract = 1
    /\ calls.assess = 2

\* C2: once an assessment has returned zero corrections, no further
\* assessment is run, no field map changes, no record is appended, and the
\* run is on its way out of the loop, whatever budget remains.
C2_ZeroCorrectionsStop ==
    [][(/\ calls.assess > 0
        /\ qa_result.success
        /\ DictLen(qa_result.corrected_fields) = 0)
       => (/\ pc \in {"Finalizing", "Done"}
           /\ calls'.assess = calls.assess
           /\ heap' = heap
           /\ results'.iterations = results.iterations)]_vars

C2_Witness ==
    /\ pc = "Done"
    /\ qa_result.success
    /\ DictLen(qa_result.corrected_fields) = 0
    /\ calls.assess = 1
    /\ max_iterations >= 3

\* C3: a loop pass that starts with quality >= 0.9 goes straight to
\* Finalizing, no assessment is run from Finalizing on, and an initial
\* extraction of quality >= 0.9 leaves a trail of one record.
C3_QualityGate ==
    /\ [][(pc = "Loop" /\ iteration <= max_iterations
              /\ current_quality * 10 >= 9 * SCALE)
          => (pc' = "Finalizing")]_vars
    /\ [][(pc \in {"Finalizing", "Done"}) => (calls'.assess = calls.assess)]_vars
    /\ [](/\ pc \in {"Finalizing", "Done"}
          /\ extraction_result.quality_score * 10 >= 9 * SCALE
          => Len(results.iterations) = 1 /\ calls.assess = 0)

C3_Witness ==
    /\ pc = "Done"
    /\ max_iterations >= 2
    /\ extraction_result.quality_score * 10 >= 9 * SCALE
    /\ Len(results.iterations) = 1

\* C4 (as claimed): the agent's quality score, the assessor's overall score
\* and the orchestrator's quality score are always within [0,1], and the
\* quality is 0 for a form without fields.
C4_ScoresInUnitInterval ==
    /\ extraction_result.quality_score \in 0..SCALE
    /\ current_quality \in 0..SCALE
    /\ LastAssessment.overall_score \in 0..SCALE
    /\ Len(pdf_fields) = 0 => extraction_result.quality_score = 0 /\ current_quality = 0

\* C5 (as claimed): every record of the audit trail, with the field map it
\* holds, is what it was when it was appended.
C5_RecordsNeverChange ==
    /\ Len(results.iterations) = Len(history.recorded)
    /\ \A i \in 1..Len(results.iterations) :
         Snapshot(results.iterations[i]) = history.recorded[i]

\* C6: the key set of the current field map only grows.
C6_KeysOnlyGrow ==
    [][(current_data # 0) =>
         (/\ current_data' = current_data
          /\ Keys(heap[current_data]) \subseteq Keys(heap'[current_data']))]_vars

C6_Witness ==
    /\ calls.correct > 0
    /\ Keys(history.recorded[1].extracted_data) # {}
    /\ Keys(history.recorded[1].extracted_data) \subseteq Keys(Deref(current_data))
    /\ Keys(Deref(current_data)) # Keys(history.recorded[1].extracted_data)

\* C7 (as claimed): on success the trail is as long as the number of passes
\* run, the extraction and every pass in which the assessor ran.
C7_TrailCountsAssessments ==
    pc = "Done" => results.total_iterations = calls.extract + calls.assess

\* 1 when the last assessment ended the loop, 0 otherwise
StoppedByAssessment ==
    IF calls.assess > 0 /\ (~qa_result.success \/ ~qa_result.should_retry)
    THEN 1 ELSE 0

\* C7 (amended): on success the trail is as long as the number of passes that
\* ended with a record: the extraction, and every pass in which the assessor
\* ran and its corrections were merged (an assessment that ends the loop
\* leaves no record); and the trail only ever grows at its end.
C7_TrailCountsMergedPasses ==
    /\ [](pc = "Done" =>
            /\ results.total_iterations = Len(results.iterations)
            /\ results.total_iterations
                   = calls.extract + calls.assess - StoppedByAssessment)
    /\ [][(/\ Len(results'.iterations) >= Len(results.iterations)
           /\ \A i \in 1..Len(results.iterations) :
                results'.iterations[i] = results.iterations[i])]_vars

C7_Witness ==
    /\ pc = "Done"
    /\ calls.assess = 2
    /\ results.total_iterations = 2

\* C8 (as claimed): after a Correcting pass the quality is the extraction
\* agent's formula, 0.4 completion + 0.4 mean confidence + 0.2 high-confidence
\* share, capped at 1, of the merged field map.
C8_SameFormulaAfterCorrection ==
    (pc = "Loop" /\ calls.correct > 0) =>
        current_quality =
            Agent_calculate_quality_score(Deref(current_data),
                                          extraction_result.confidence_scores,
                                          form_fields)

\* C9 (as claimed): when the backend call of a generative provider fails at
\* transport level, the provider returns what the pattern strategy returns
\* for the same text and schema.
C9_TransportFallsBackToPatterns ==
    (history.backend = "transport" /\ extraction_result.success) =>
        LET p == _extract_with_patterns(history.all_text, form_fields)
        IN /\ history.recorded[1].extracted_data = p.extracted_data
           /\ history.recorded[1].confidence_scores = p.confidence_scores

\* C10: should_retry of an assessment is true exactly when its overall score
\* is below 0.8 and it has at least one correction.
C10_ShouldRetryIff ==
    qa_result.success =>
        /\ qa_result.should_retry = LastAssessment.should_retry
        /\ LastAssessment.should_retry
             <=> (/\ LastAssessment.overall_score * 10 < 8 * SCALE
                  /\ Keys(LastAssessment.corrected_fields) # {})

C10_Witness ==
    /\ qa_result.success
    /\ qa_result.should_retry
    /\ pc = "Correcting"

\* C11 (as claimed): the overall score of an assessment is 0.6 * (filled +
\* corrections of fields that were missing from the field map) / total + 0.4 *
\* confidence average; a correction that overwrites a present field is not
\* counted.
C11_OverallCountsMissingOnly ==
    [][(pc = "Assessing" /\ qa_result'.success /\ Len(form_fields) > 0) =>
         LET data == Deref(current_data)
             a == qa_result'.assessment
             previously_missing == Keys(a.corrected_fields) \ Keys(data)
             corrected_completion ==
                 ((DictLen(data) + Cardinality(previously_missing)) * SCALE)
                     \div Len(form_fields)
         IN a.overall_score = (corrected_completion * 6 + a.confidence_avg * 4) \div 10]_vars

\* C12 (as claimed): in the outcome of every provider and in every later
\* state of the run, each key of the confidence map is a key of the field map.
C12_ConfidenceKeysAreFieldKeys ==
    calls.extract > 0 =>
        /\ Keys(history.recorded[1].confidence_scores)
               \subseteq Keys(history.recorded[1].extracted_data)
        /\ Keys(extraction_result.confidence_scores) \subseteq Keys(Deref(current_data))

\* C13 (as claimed): the text every assessment is run against is the text the
\* extraction provider received, for every list of sources.
C13_AssessorSeesProviderCorpus ==
    [][(pc = "Assessing") => (extraction_result.source_text = history.all_text)]_vars

\* C14: the Output adapter is invoked exactly when an output path was given
\* and the final field map is not empty, once, as the last step of the run;
\* whether the write succeeds or fails, process_form returns success = True
\* with the final_data, quality_score and iterations a successful write gives,
\* and the field map is left as it was.
C14_WriteFailureKeepsResults ==
    /\ [](pc = "Done" =>
            /\ calls.fill = (IF output_path /\ DictLen(Deref(results.final_data)) > 0
                             THEN 1 ELSE 0)
            /\ (history.fill # None) <=> (calls.fill = 1))
    /\ [](pc \notin Terminal => calls.fill = 0 /\ history.fill = None)
    /\ [][(pc = "Finalizing") =>
            (/\ pc' = "Done"
             /\ results'.success
             /\ results'.error = None
             /\ results'.final_data = FinalResults(TRUE).final_data
             /\ results'.quality_score = FinalResults(TRUE).quality_score
             /\ results'.iterations = FinalResults(TRUE).iterations
             /\ results'.total_iterations = FinalResults(TRUE).total_iterations
             /\ heap' = heap)]_vars

C14_Witness ==
    /\ pc = "Done"
    /\ history.fill = "failed"
    /\ results.success
    /\ DictLen(Deref(results.final_data)) > 0
    /\ calls.correct > 0

\* C15 (as claimed): the result returned after a failed write differs from
\* the result returned after a successful write, and does not present the
\* output path as a filled form.
C15_WriteOutcomeRecorded ==
    (pc = "Done" /\ history.fill = "failed") =>
        /\ results # FinalResults(TRUE)
        /\ results.filled_pdf_path # output_path

\* C16: when the Schema adapter fails, the run is Failed: success = False
\* with an error message, the provider, the Quality Assessor and the Output
\* adapter were never invoked, the audit trail and final_data are empty; and
\* nothing happens after Failed.
C16_SchemaFailureFails ==
    /\ [](history.schema = "failed" =>
            /\ pc = "Failed"
            /\ ~results.success
            /\ results.error # None
            /\ calls.extract = 0 /\ calls.assess = 0
            /\ calls.correct = 0 /\ calls.fill = 0
            /\ results.iterations = <<>>
            /\ Deref(results.final_data) = EmptyDict
            /\ heap = <<>>)
    /\ [][(pc = "Failed") => (pc' = "Failed" /\ results' = results)]_vars

C16_Witness ==
    /\ pc = "Failed"
    /\ history.schema = "failed"
    /\ calls.schema = 1
    /\ Len(sources) > 0
    /\ output_path

\* C17: when the backend's response holds no '{' ... '}' pair, or what stands
\* between the first '{' and the last '}' does not decode as JSON, the parsed
\* outcome is the empty field map and the empty confidence map, and nothing is
\* raised (the extraction succeeds and the run goes on).
C17_UnparsableReplyIsEmpty ==
    (/\ history.backend \in {"reply", "transport"}
     /\ ~history.response.brace \/ ~history.response.decodes) =>
        /\ extraction_result.success
        /\ pc # "Failed"
        /\ history.recorded[1].extracted_data = EmptyDict
        /\ history.recorded[1].confidence_scores = EmptyDict
        /\ _parse_ai_response(history.response)
               = [extracted_data |-> EmptyDict, confidence_scores |-> EmptyDict]

C17_Witness ==
    /\ history.backend = "reply"
    /\ history.response.brace
    /\ ~history.response.decodes
    /\ Len(form_fields) > 0
    /\ pc = "Done"

\* C18: for a non-empty schema the extraction agent's quality score is
\* min(1, 0.4 * filled/total + 0.4 * mean confidence (0 without confidences)
\* + 0.2 * confidences above 0.8 / filled (0 when nothing is filled)); for 10
\* fields, 6 of them filled with confidence 0.7, it is 0.52.
C18_AgentQualityFormula ==
    /\ (calls.extract > 0 /\ extraction_result.success /\ Len(form_fields) > 0) =>
          LET data == history.recorded[1].extracted_data
              conf == history.recorded[1].confidence_scores
              filled == Cardinality(Keys(data))
              completion == (filled * SCALE) \div Len(form_fields)
              mean == IF Keys(conf) = {} THEN 0
                      ELSE (SumValues(conf) * (SCALE \div 100)) \div Cardinality(Keys(conf))
              above == Cardinality({ k \in Keys(conf) : conf[k] > 80 })
              share == IF filled = 0 THEN 0 ELSE (above * SCALE) \div filled
              blend == 4 * completion + 4 * mean + 2 * share
          IN /\ (filled * SCALE) % Len(form_fields) = 0
             /\ blend % 10 = 0
             /\ history.recorded[1].quality_score * 10
                    = (IF blend <= 10 * SCALE THEN blend ELSE 10 * SCALE)
    /\ LET ten == [i \in 1..10 |-> [name |-> <<"field", i>>, alt_text |-> ""]]
           six == { <<"field", i>> : i \in 1..6 }
       IN Agent_calculate_quality_score([k \in six |-> "value"], [k \in six |-> 70], ten)
              * 100 = 52 * SCALE

C18_Witness ==
    /\ pc = "Done"
    /\ extraction_result.success
    /\ Len(form_fields) = 2
    /\ DictLen(history.recorded[1].extracted_data) = 2
    /\ \E k \in Keys(history.recorded[1].confidence_scores) :
          history.recorded[1].confidence_scores[k] > 80
    /\ \E k \in Keys(history.recorded[1].confidence_scores) :
          history.recorded[1].confidence_scores[k] <= 80
    /\ history.recorded[1].quality_score < SCALE

\* The extraction outcome is the pattern strategy's: the provider is the
\* pattern provider, or a generative one whose backend was unavailable
PatternStrategyRan ==
    /\ calls.extract > 0
    /\ extraction_result.success
    /\ ai_provider = "pattern" \/ history.backend = "unavailable"

\* C19: in the pattern strategy's result every schema field either has no
\* entry, or has a non-empty value with confidence 0.8, the value of a
\* category match, or with confidence 0.6, the value of a phrase match where
\* no category gave a value; a field matching neither has no entry; the two
\* maps have the same keys.
C19_PatternEntries ==
    PatternStrategyRan =>
        LET data == history.recorded[1].extracted_data
            conf == history.recorded[1].confidence_scores
            text == history.all_text
        IN /\ Keys(data) = Keys(conf)
           /\ Keys(data) \subseteq FieldNames(form_fields)
           /\ \A n \in FieldNames(form_fields) :
                LET field == FieldByName(form_fields, n)
                    category == CategoryMatch(field, text, 1)
                    phrase == PhraseMatch(SearchTerms(field), text)
                IN IF n \in Keys(data)
                   THEN /\ data[n] # "" /\ data[n] # None
                        /\ conf[n] \in {60, 80}
                        /\ conf[n] = 80 => category # None /\ data[n] = category
                        /\ conf[n] = 60 => category = None /\ data[n] = phrase
                   ELSE category = None /\ phrase = None

C19_Witness ==
    /\ pc = "Done"
    /\ ai_provider = "pattern"
    /\ PatternStrategyRan
    /\ \E n \in Keys(history.recorded[1].confidence_scores) :
          history.recorded[1].confidence_scores[n] = 80
    /\ \E n \in Keys(history.recorded[1].confidence_scores) :
          history.recorded[1].confidence_scores[n] = 60

C21_CorpusNeverAborts ==
    (pc # "PatternCollect") =>
        /\ pc # "PatternRaised"
        /\ Len(history.all_text) = 2 * Len(sources)
        /\ \A i \in 1..Len(sources) :
             LET header == history.all_text[2 * i - 1]
                 text == history.all_text[2 * i]
             IN /\ header.hdr /\ ~text.hdr
                /\ sources[i].kind = "text" => header.line = sources[i].line
                /\ text.line \in {sources[i].line, LineFetchError}
                /\ text.line = LineFetchError => sources[i].kind = "url"

\* Reading a literal string back: a backslash gives the character after it
RECURSIVE Unescape(_)
Unescape(v) ==
    IF v = <<>> THEN <<>>
    ELSE IF Head(v) = "\\" /\ Len(v) >= 2
         THEN <<v[2]>> \o Unescape(SubSeq(v, 3, Len(v)))
         ELSE <<Head(v)>> \o Unescape(Tail(v))

\* Every backslash of v starts an escape of a backslash or a parenthesis, and
\* no parenthesis stands without one
RECURSIVE WellEscaped(_)
WellEscaped(v) ==
    IF v = <<>> THEN TRUE
    ELSE IF Head(v) = "\\"
         THEN /\ Len(v) >= 2
              /\ v[2] \in {"\\", "(", ")"}
              /\ WellEscaped(SubSeq(v, 3, Len(v)))
         ELSE Head(v) \notin {"(", ")"} /\ WellEscaped(Tail(v))

HasValue(item) == item.value # <<>>

IsSpecial(c) == c \in {"\\", "(", ")"}

\* C22: the serialization has one entry for every field with a non-empty
\* value and none for an empty value, in map order; in an entry's value every
\* backslash, '(' and ')' of the original is preceded by one escaping
\* backslash, and reading the emitted value back gives the original value.
C22_FdfEscaping ==
    (fdf.pc = "done") =>
        LET kept == SelectSeq(fdf.field_data, HasValue)
            out == fdf.content.fdf_fields
        IN /\ Len(out) = Len(kept)
           /\ \A i \in 1..Len(out) :
                /\ out[i].T = kept[i].name
                /\ WellEscaped(out[i].V)
                /\ Len(out[i].V)
                      = Len(kept[i].value) + Len(SelectSeq(kept[i].value, IsSpecial))
                /\ Unescape(out[i].V) = kept[i].value

C22_Witness ==
    /\ fdf.pc = "done"
    /\ Len(fdf.field_data) = 2
    /\ fdf.field_data[1].value = <<>>
    /\ fdf.field_data[2].value = <<"\\", "(">>
    /\ Len(fdf.content.fdf_fields) = 1

\* The step of wf.steps that the k-th recorded task of the workflow ran
StepOfTask(k) == wf.steps[wf.executed[k].i]

\* The agent of the step is registered and has a handler for its task type
HandlerExists(step) ==
    step.agent \in DOMAIN wf.agents /\ step.task_type \in wf.agents[step.agent]

\* C23: every task WorkflowOrchestrator.execute_task has returned is in a
\* terminal status: 'completed' with the handler's return value as result
\* exactly when the agent is registered, has a handler for the task type and
\* the handler returned normally; 'failed' with an error message in every
\* other case (unknown agent, unknown task type, handler raised).
C23_ExecuteTaskTerminal ==
    wf.pc # "idle" =>
        \A k \in 1..Len(wf.state.tasks) :
            LET t == wf.state.tasks[k]
                ok == /\ HandlerExists(StepOfTask(k))
                      /\ wf.executed[k].outcome = "returns"
            IN /\ t.status \in {"completed", "failed"}
               /\ t.status = "completed" <=> ok
               /\ t.status = "completed" => t.result = "handler result" /\ t.error = None
               /\ t.status = "failed" => t.error # None /\ t.result = "{}"

\* A workflow whose tasks ended in each way: one completed, one failed by a
\* raising handler, by an unknown task type or by an unknown agent
C23_Witness ==
    /\ wf.pc = "done"
    /\ Len(wf.state.tasks) >= 2
    /\ wf.state.tasks[1].status = "completed"
    /\ \E k \in 1..Len(wf.state.tasks) :
         /\ wf.state.tasks[k].status = "failed"
         /\ wf.state.tasks[k].error = "str(e)"

\* The recorded task list of the returned workflow state is the executed
\* steps in list order: the k-th task is the task of the k-th step
TasksAreExecutedSteps ==
    /\ Len(wf.returned.tasks) = Len(wf.executed)
    /\ \A k \in 1..Len(wf.returned.tasks) :
         /\ wf.executed[k].i = k
         /\ wf.returned.tasks[k].task_id = k - 1
         /\ wf.returned.tasks[k].agent_name = wf.steps[k].agent
         /\ wf.returned.tasks[k].task_type = wf.steps[k].task_type

FailedTasks == { k \in 1..Len(wf.returned.tasks) : wf.returned.tasks[k].status = "failed" }

\* C30 as stated: execute_workflow runs the steps in list order; the first
\* step whose task ends 'failed' is the last step executed and the status is
\* 'failed'; otherwise every step is executed and the status is 'completed';
\* the recorded tasks are the executed steps in order and the returned status
\* is never 'running'.
C30_StopsOnlyAtFailedTask ==
    wf.pc = "done" =>
        /\ TasksAreExecutedSteps
        /\ wf.returned.status # "running"
        /\ IF FailedTasks # {}
           THEN /\ FailedTasks = { Len(wf.returned.tasks) }
                /\ wf.returned.status = "failed"
           ELSE /\ Len(wf.returned.tasks) = Len(wf.steps)
                /\ wf.returned.status = "completed"

\* C30, amended: as above, with a third way to end: a step that lacks the key
\* 'agent' or 'task_type' is not executed and records no task; it ends the
\* workflow with status 'failed' and an error, after the tasks of the steps
\* before it, all of them completed.
C30_WorkflowOrder ==
    wf.pc = "done" =>
        /\ TasksAreExecutedSteps
        /\ wf.returned.status # "running"
        /\ IF FailedTasks # {}
           THEN /\ FailedTasks = { Len(wf.returned.tasks) }
                /\ wf.returned.status = "failed"
                /\ wf.returned.error = None
           ELSE IF Len(wf.returned.tasks) < Len(wf.steps)
           THEN /\ ~wf.steps[Len(wf.returned.tasks) + 1].well_formed
                /\ wf.returned.status = "failed"
                /\ wf.returned.error = "KeyError"
           ELSE /\ wf.returned.status = "completed"
                /\ wf.returned.error = None

\* A workflow ended by a step without its keys, after a completed task
C30_Witness ==
    /\ wf.pc = "done"
    /\ Len(wf.returned.tasks) >= 1
    /\ FailedTasks = {}
    /\ Len(wf.returned.tasks) < Len(wf.steps)
    /\ wf.returned.status = "failed"

\* What an assessment recorded about field n: a correction, a note of a
\* re-scan hit, a 'missing field' issue, a low-confidence issue
HasCorrection(a, n) == n \in Keys(a.corrected_fields)

NotedFound(a, n) == <<"found_missing", n>> \in a.recommendations

ReportedMissing(a, n) == <<"missing", n>> \in a.issues

ReportedLow(a, n) == <<"low_confidence", n>> \in a.issues

\* C24: in every assessment, a schema field absent from the field map gets
\* exactly one of two things: a correction with a recommendation note, when
\* the re-scan hits with a value of length strictly between 0 and 200, or a
\* 'missing field' issue and no correction, when it misses; a field present
\* in the field map is never reported as missing.
C24_MissingFieldBookkeeping ==
    [][ (pc = "Assessing" /\ qa_result'.success) =>
          \A n \in FieldNames(form_fields) :
             LET a == qa_result'.assessment
                 hit == _find_missing_field(FieldByName(form_fields, n),
                                            extraction_result.source_text)
             IN IF n \in Keys(Deref(current_data))
                THEN ~ReportedMissing(a, n) /\ ~NotedFound(a, n)
                ELSE IF hit # None
                THEN /\ ValueLen(hit) > 0 /\ ValueLen(hit) < 200
                     /\ HasCorrection(a, n) /\ NotedFound(a, n)
                     /\ ~ReportedMissing(a, n)
                ELSE /\ ReportedMissing(a, n)
                     /\ ~HasCorrection(a, n) /\ ~NotedFound(a, n) ]_vars

\* C25: in every assessment, a field of the field map with confidence below
\* 0.6 gets one low-confidence issue, and a correction if and only if the
\* category-aware re-extraction returns a value that differs from the current
\* one; a field with confidence >= 0.6, and a confidence entry whose field is
\* not in the field map, get neither.
C25_LowConfidenceBookkeeping ==
    [][ (pc = "Assessing" /\ qa_result'.success) =>
          \A n \in Keys(extraction_result.confidence_scores) :
             LET a == qa_result'.assessment
                 data == Deref(current_data)
                 improved_value == _improve_field_extraction(n, extraction_result.source_text)
             IN IF n \in Keys(data) /\ extraction_result.confidence_scores[n] < 60
                THEN /\ ReportedLow(a, n)
                     /\ HasCorrection(a, n)
                           <=> (improved_value # None /\ improved_value # data[n])
                ELSE /\ ~ReportedLow(a, n)
                     /\ n \in Keys(data) => ~HasCorrection(a, n) ]_vars

\* The quality-improvement records of results['iterations']
IsImprovement(rec) ==
    "type" \in DOMAIN rec /\ rec.type = "quality_improvement"

ImprovementRecords == SelectSeq(results.iterations, IsImprovement)

CorrectionsNotRetried ==
    /\ qa_result.success
    /\ DictLen(qa_result.corrected_fields) > 0
    /\ ~qa_result.should_retry

\* C27: when an assessment produces corrections but its overall_score is at
\* least 0.8 (should_retry false), the orchestrator stops without merging
\* them: the assessment is followed by the end of the loop, the final field
\* map is the field map the assessment was given, and the returned result
\* holds no quality-improvement record and none of the corrected values.
C27_UnretriedCorrectionsDropped ==
    [][ /\ (pc = "Assessing" /\ CorrectionsNotRetried') =>
             /\ qa_result'.assessment.overall_score >= Score(80)
             /\ pc' = "Finalizing"
             /\ heap' = heap
             /\ current_data' = current_data
        /\ (pc = "Finalizing" /\ CorrectionsNotRetried) =>
             LET final_data == IF results'.final_data = 0 THEN EmptyDict
                               ELSE heap'[results'.final_data]
             IN /\ pc' = "Done"
                /\ results'.success
                /\ results'.final_data = current_data
                /\ final_data = Deref(current_data)
                /\ final_data = history.recorded[1].extracted_data
                /\ Len(results'.iterations) = 1
                /\ \A n \in Keys(qa_result.corrected_fields) :
                      Get(final_data, n) # qa_result.corrected_fields[n] ]_vars

\* A run that ended with corrections left unmerged
C27_Witness ==
    /\ pc = "Done"
    /\ CorrectionsNotRetried
    /\ results.success

\* The extraction agent was called and answered success=False
ExtractionFailedInside == calls.extract = 1 /\ ~extraction_result.success

\* C28: when DataExtractionAgent.execute fails internally (success=False,
\* empty maps, quality 0) the orchestrator does not fail the run: the outcome
\* is appended as iteration 1, the quality loop starts from an empty field
\* map and quality 0, and the run returns success=True.
C28_InternalFailureIsNotFailed ==
    ExtractionFailedInside =>
        /\ pc # "Failed"
        /\ history.recorded[1].extracted_data = EmptyDict
        /\ extraction_result.confidence_scores = EmptyDict
        /\ extraction_result.quality_score = 0
        /\ Len(results.iterations) >= 1
        /\ results.iterations[1] = extraction_result
        /\ results.iterations[1].iteration = 1
        /\ (pc = "Loop" /\ iteration = 2) =>
               Deref(current_data) = EmptyDict /\ current_quality = 0
        /\ pc = "Done" => results.success

\* A run that ended after the agent's call failed internally and the
\* assessor found its corrections on the empty field map
C28_Witness ==
    /\ ExtractionFailedInside
    /\ pc = "Done"
    /\ results.success
    /\ calls.correct = 1

\* The run uses the pattern provider, the names of its schema are distinct,
\* and the extraction agent has answered
PatternRunExtracted ==
    /\ ai_provider = "pattern"
    /\ Cardinality(FieldNames(form_fields)) = Len(form_fields)
    /\ calls.extract = 1

\* C29: with the pattern provider and a schema of distinct field names, the
\* confidences are 0.6 or 0.8, the initial quality score is at most 0.72, the
\* >= 0.9 gate does not end the loop before the first assessment, and a run
\* with max_iterations >= 2 that gets through the loop has called the
\* Quality Assessor at least once.
C29_PatternQualityBelowGate ==
    PatternRunExtracted =>
        /\ \A n \in Keys(extraction_result.confidence_scores) :
              extraction_result.confidence_scores[n] \in {60, 80}
        /\ extraction_result.quality_score <= Score(72)
        /\ results.iterations[1].quality_score <= Score(72)
        /\ (calls.assess = 0 /\ pc \in {"Finalizing", "Done"}) => max_iterations < 2
        /\ (pc = "Done" /\ max_iterations >= 2) => calls.assess >= 1

\* A pattern run that scored exactly 0.72 and went on to its assessment
C29_Witness ==
    /\ PatternRunExtracted
    /\ extraction_result.quality_score = Score(72)
    /\ calls.assess >= 1
    /\ pc = "Done"

====
